---- MODULE Spec2Model ----
(***************************************************************************)
(* Model of naren._diskcache_fn: the disk-backed memoizing decorator       *)
(* diskcache_fn and its key derivation _arg_hash.                          *)
(*                                                                         *)
(* Python values are records [t |-> tag, v |-> payload tuple]; byte        *)
(* strings are sequences of 0..255; paths are pathlib "parts" tuples.      *)
(***************************************************************************)
EXTENDS Integers, Sequences, FiniteSets, TLC

(***************************************************************************)
(* Generic helpers                                                         *)
(***************************************************************************)
RECURSIVE Concat(_)
Concat(ss) ==
    IF ss = <<>> THEN <<>> ELSE Head(ss) \o Concat(Tail(ss))

(***************************************************************************)
(* hashlib.md5 (RFC 1321).  A 32-bit word is <<hi, lo>>, two 16-bit        *)
(* halves, so that no intermediate exceeds the checker's integers.         *)
(***************************************************************************)
W16 == 65536

RECURSIVE And16(_, _)
And16(a, b) ==
    IF a = 0 \/ b = 0 THEN 0
    ELSE 2 * And16(a \div 2, b \div 2) + ((a % 2) * (b % 2))

Or16(a, b) == a + b - And16(a, b)
Xor16(a, b) == a + b - 2 * And16(a, b)
Not16(a) == (W16 - 1) - a

WAnd(x, y) == <<And16(x[1], y[1]), And16(x[2], y[2])>>
WOr(x, y) == <<Or16(x[1], y[1]), Or16(x[2], y[2])>>
WXor(x, y) == <<Xor16(x[1], y[1]), Xor16(x[2], y[2])>>
WNot(x) == <<Not16(x[1]), Not16(x[2])>>

WAdd(x, y) ==
    LET lo == x[2] + y[2]
        hi == x[1] + y[1] + (lo \div W16)
    IN  <<hi % W16, lo % W16>>

Pow2(n) == IF n = 0 THEN 1 ELSE
           IF n = 1 THEN 2 ELSE
           IF n = 2 THEN 4 ELSE
           IF n = 3 THEN 8 ELSE
           IF n = 4 THEN 16 ELSE
           IF n = 5 THEN 32 ELSE
           IF n = 6 THEN 64 ELSE
           IF n = 7 THEN 128 ELSE
           IF n = 8 THEN 256 ELSE
           IF n = 9 THEN 512 ELSE
           IF n = 10 THEN 1024 ELSE
           IF n = 11 THEN 2048 ELSE
           IF n = 12 THEN 4096 ELSE
           IF n = 13 THEN 8192 ELSE
           IF n = 14 THEN 16384 ELSE
           IF n = 15 THEN 32768 ELSE 65536

\* rotate a 32-bit word left by s bits, 0 < s < 32
WRotl(x, s) ==
    LET y == IF s >= 16 THEN <<x[2], x[1]>> ELSE x
        r == IF s >= 16 THEN s - 16 ELSE s
    IN  IF r = 0 THEN y
        ELSE << ((y[1] * Pow2(r)) % W16) + (y[2] \div Pow2(16 - r)),
                ((y[2] * Pow2(r)) % W16) + (y[1] \div Pow2(16 - r)) >>

MD5_K ==
  <<
    <<55146, 42104>>, <<59591, 46934>>, <<9248, 28891>>, <<49597, 52974>>,
    <<62844, 4015>>, <<18311, 50730>>, <<43056, 17939>>, <<64838, 38145>>,
    <<27008, 39128>>, <<35652, 63407>>, <<65535, 23473>>, <<35164, 55230>>,
    <<27536, 4386>>, <<64920, 29075>>, <<42617, 17294>>, <<18868, 2081>>,
    <<63006, 9570>>, <<49216, 45888>>, <<9822, 23121>>, <<59830, 51114>>,
    <<54831, 4189>>, <<580, 5203>>, <<55457, 59009>>, <<59347, 64456>>,
    <<8673, 52710>>, <<49975, 2006>>, <<62677, 3463>>, <<17754, 5357>>,
    <<43491, 59653>>, <<64751, 41976>>, <<26479, 729>>, <<36138, 19594>>,
    <<65530, 14658>>, <<34673, 63105>>, <<28061, 24866>>, <<64997, 14348>>,
    <<42174, 59972>>, <<19422, 53161>>, <<63163, 19296>>, <<48831, 48240>>,
    <<10395, 32454>>, <<60065, 10234>>, <<54511, 12421>>, <<1160, 7429>>,
    <<55764, 53305>>, <<59099, 39397>>, <<8098, 31992>>, <<50348, 22117>>,
    <<62505, 8772>>, <<17194, 65431>>, <<43924, 9127>>, <<64659, 41017>>,
    <<25947, 22979>>, <<36620, 52370>>, <<65519, 62589>>, <<34180, 24017>>,
    <<28584, 32335>>, <<65068, 59104>>, <<41729, 17172>>, <<19976, 4513>>,
    <<63315, 32386>>, <<48442, 62005>>, <<10967, 53947>>, <<60294, 54161>> >>

MD5_S ==
  << 7, 12, 17, 22, 7, 12, 17, 22, 7, 12, 17, 22, 7, 12, 17, 22,
     5, 9, 14, 20, 5, 9, 14, 20, 5, 9, 14, 20, 5, 9, 14, 20,
     4, 11, 16, 23, 4, 11, 16, 23, 4, 11, 16, 23, 4, 11, 16, 23,
     6, 10, 15, 21, 6, 10, 15, 21, 6, 10, 15, 21, 6, 10, 15, 21 >>

\* initial chaining value A, B, C, D
MD5_IV == << <<26437, 8961>>, <<61389, 43913>>, <<39098, 56574>>, <<4146, 21622>> >>

\* message with the 1-bit, zero padding and the 64-bit little-endian bit length
MD5Pad(msg) ==
    LET n == Len(msg)
        z == (55 - n) % 64
        bits == 8 * n
    IN  msg \o <<128>> \o [i \in 1..z |-> 0]
            \o << bits % 256, (bits \div 256) % 256, (bits \div W16) % 256,
                  0, 0, 0, 0, 0 >>

\* the g-th little-endian word (g in 0..15) of the 64-byte block starting at off
MD5Word(m, off, g) ==
    LET p == off + 4 * g
    IN  << m[p + 3] + 256 * m[p + 4], m[p + 1] + 256 * m[p + 2] >>

\* one of the 64 operations: st = <<A, B, C, D>>
MD5Round(st, m, off, i) ==
    LET A == st[1]
        B == st[2]
        C == st[3]
        D == st[4]
        f == IF i < 16 THEN WOr(WAnd(B, C), WAnd(WNot(B), D))
             ELSE IF i < 32 THEN WOr(WAnd(D, B), WAnd(WNot(D), C))
             ELSE IF i < 48 THEN WXor(B, WXor(C, D))
             ELSE WXor(C, WOr(B, WNot(D)))
        g == IF i < 16 THEN i
             ELSE IF i < 32 THEN (5 * i + 1) % 16
             ELSE IF i < 48 THEN (3 * i + 5) % 16
             ELSE (7 * i) % 16
        sum == WAdd(WAdd(A, f), WAdd(MD5_K[i + 1], MD5Word(m, off, g)))
    IN  << D, WAdd(B, WRotl(sum, MD5_S[i + 1])), B, C >>

\* operations lo .. hi-1, by halves to keep the evaluation shallow
RECURSIVE MD5Rounds(_, _, _, _, _)
MD5Rounds(st, m, off, lo, hi) ==
    IF hi = lo + 1 THEN MD5Round(st, m, off, lo)
    ELSE LET mid == (lo + hi) \div 2
             half == MD5Rounds(st, m, off, lo, mid)
         IN  IF half = <<>> THEN half ELSE MD5Rounds(half, m, off, mid, hi)

RECURSIVE MD5Blocks(_, _, _)
MD5Blocks(st, m, off) ==
    IF off >= Len(m) THEN st
    ELSE LET r == MD5Rounds(st, m, off, 0, 64)
         IN  MD5Blocks(<< WAdd(st[1], r[1]), WAdd(st[2], r[2]),
                          WAdd(st[3], r[3]), WAdd(st[4], r[4]) >>, m, off + 64)

HexChars == << "0", "1", "2", "3", "4", "5", "6", "7",
               "8", "9", "a", "b", "c", "d", "e", "f" >>

HexByte(b) == HexChars[(b \div 16) + 1] \o HexChars[(b % 16) + 1]

HexWord(w) ==
    HexByte(w[2] % 256) \o HexByte(w[2] \div 256)
        \o HexByte(w[1] % 256) \o HexByte(w[1] \div 256)

\* hashlib.md5(msg).hexdigest()
MD5Hex(msg) ==
    LET d == MD5Blocks(MD5_IV, MD5Pad(msg), 0)
    IN  HexWord(d[1]) \o HexWord(d[2]) \o HexWord(d[3]) \o HexWord(d[4])

(***************************************************************************)
(* Python values.  int: <<n>>; str: the character codes; tuple and list:   *)
(* the items; dict: the <<key, value>> pairs in insertion order; handle:   *)
(* an open resource handle, which pickle refuses.                          *)
(***************************************************************************)
PyInt(n) == [t |-> "int", v |-> <<n>>]
PyNone == [t |-> "none", v |-> <<>>]
PyStr(cs) == [t |-> "str", v |-> cs]
PyTuple(items) == [t |-> "tuple", v |-> items]
PyList(items) == [t |-> "list", v |-> items]
PyDict(pairs) == [t |-> "dict", v |-> pairs]
PyHandle == [t |-> "handle", v |-> <<>>]

\* Python's ==, by value: a dict compares without regard to order
RECURSIVE PyEq(_, _)
PyEq(p, q) ==
    IF p.t # q.t THEN FALSE
    ELSE IF p.t \in {"tuple", "list"}
        THEN /\ Len(p.v) = Len(q.v)
             /\ \A i \in 1..Len(p.v) : PyEq(p.v[i], q.v[i])
    ELSE IF p.t = "dict"
        THEN /\ Len(p.v) = Len(q.v)
             /\ \A i \in 1..Len(p.v) : \E j \in 1..Len(q.v) :
                    PyEq(p.v[i][1], q.v[j][1]) /\ PyEq(p.v[i][2], q.v[j][2])
    ELSE p.v = q.v

(***************************************************************************)
(* pickle: the opcodes CPython's pickler emits for these values            *)
(* (protocol 4 and 5), and the unpickler's stack machine.                  *)
(***************************************************************************)
RECURSIVE Picklable(_)
Picklable(o) ==
    IF o.t = "handle" THEN FALSE
    ELSE IF o.t \in {"tuple", "list"}
        THEN \A i \in 1..Len(o.v) : Picklable(o.v[i])
    ELSE IF o.t = "dict"
        THEN \A i \in 1..Len(o.v) : Picklable(o.v[i][1]) /\ Picklable(o.v[i][2])
    ELSE TRUE

RECURSIVE save(_)
save(o) ==
    LET n == Len(o.v)
        items == Concat([i \in 1..n |-> save(o.v[i])])
        pairs == Concat([i \in 1..n |-> save(o.v[i][1]) \o save(o.v[i][2])])
    IN  CASE o.t = "none" -> <<78>>
          [] o.t = "int" ->
                IF o.v[1] < 256 THEN <<75, o.v[1]>>
                ELSE <<77, o.v[1] % 256, o.v[1] \div 256>>
          [] o.t = "str" -> <<140, n>> \o o.v \o <<148>>
          [] o.t = "tuple" ->
                IF n = 0 THEN <<41>>
                ELSE IF n <= 3 THEN items \o <<132 + n, 148>>
                ELSE <<40>> \o items \o <<116, 148>>
          [] o.t = "list" ->
                <<93, 148>> \o (IF n = 0 THEN <<>>
                                ELSE IF n = 1 THEN items \o <<97>>
                                ELSE <<40>> \o items \o <<101>>)
          [] o.t = "dict" ->
                <<125, 148>> \o (IF n = 0 THEN <<>>
                                 ELSE IF n = 1 THEN pairs \o <<115>>
                                 ELSE <<40>> \o pairs \o <<117>>)
          [] OTHER -> <<>>    \* a handle: the pickler raises, see Picklable

\* pickle.dumps(o, protocol): PROTO, a FRAME when the body has 4 bytes or more
dumps(o, protocol) ==
    LET body == save(o) \o <<46>>
        len == Len(body)
    IN  <<128, protocol>>
            \o (IF len >= 4
                THEN <<149, len % 256, len \div 256, 0, 0, 0, 0, 0, 0>>
                ELSE <<>>)
            \o body

MARK == [t |-> "MARK", v |-> <<>>]
Loaded(val) == [ok |-> TRUE, val |-> val, exc |-> ""]
Raised(exc) == [ok |-> FALSE, val |-> PyNone, exc |-> exc]

\* index of the topmost MARK of the stack, 0 when there is none
RECURSIVE TopMark(_, _)
TopMark(stack, i) ==
    IF i = 0 THEN 0
    ELSE IF stack[i] = MARK THEN i ELSE TopMark(stack, i - 1)

\* d[k] = val on the pair list of a dict
DictSet(pairs, k, val) ==
    IF \E i \in 1..Len(pairs) : pairs[i][1] = k
    THEN [i \in 1..Len(pairs) |-> IF pairs[i][1] = k THEN <<k, val>> ELSE pairs[i]]
    ELSE Append(pairs, <<k, val>>)

RECURSIVE DictUpdate(_, _, _)
DictUpdate(pairs, kvs, i) ==
    IF i > Len(kvs) THEN pairs
    ELSE DictUpdate(DictSet(pairs, kvs[i], kvs[i + 1]), kvs, i + 2)

RECURSIVE load_ops(_, _, _)
load_ops(data, pos, stack) ==
    LET op == data[pos]
        sp == Len(stack)
        left == Len(data) - pos
        mk == TopMark(stack, sp)
        above == SubSeq(stack, mk + 1, sp)
        push(val, used) == load_ops(data, pos + used, Append(stack, val))
        repl(k, val, used) ==
            load_ops(data, pos + used, Append(SubSeq(stack, 1, sp - k), val))
        bad == Raised("UnpicklingError")
    IN  IF pos > Len(data) THEN Raised("EOFError")
        ELSE CASE op = 128 ->
                    IF left < 1 THEN bad
                    ELSE IF data[pos + 1] > 5 THEN Raised("ValueError")
                    ELSE load_ops(data, pos + 2, stack)
               [] op = 149 ->
                    IF left < 8 THEN bad
                    ELSE IF data[pos + 1] + 256 * data[pos + 2] > left - 8
                        THEN bad
                    ELSE load_ops(data, pos + 9, stack)
               [] op = 78 -> push(PyNone, 1)
               [] op = 75 ->
                    IF left < 1 THEN bad ELSE push(PyInt(data[pos + 1]), 2)
               [] op = 77 ->
                    IF left < 2 THEN bad
                    ELSE push(PyInt(data[pos + 1] + 256 * data[pos + 2]), 3)
               [] op = 140 ->
                    IF left < 1 \/ left < 1 + data[pos + 1] THEN bad
                    ELSE push(PyStr(SubSeq(data, pos + 2, pos + 1 + data[pos + 1])),
                              2 + data[pos + 1])
               [] op = 148 ->
                    IF sp = 0 \/ stack[sp] = MARK THEN bad
                    ELSE load_ops(data, pos + 1, stack)
               [] op = 41 -> push(PyTuple(<<>>), 1)
               [] op \in {133, 134, 135} ->
                    IF sp - mk < op - 132 THEN bad
                    ELSE repl(op - 132,
                              PyTuple(SubSeq(stack, sp - (op - 132) + 1, sp)), 1)
               [] op = 40 -> push(MARK, 1)
               [] op = 116 ->
                    IF mk = 0 THEN bad
                    ELSE repl(sp - mk + 1, PyTuple(above), 1)
               [] op = 93 -> push(PyList(<<>>), 1)
               [] op = 125 -> push(PyDict(<<>>), 1)
               [] op = 97 ->
                    IF sp - mk < 2 \/ stack[sp - 1].t # "list" THEN bad
                    ELSE repl(2, PyList(Append(stack[sp - 1].v, stack[sp])), 1)
               [] op = 101 ->
                    IF mk < 2 \/ stack[mk - 1].t # "list" THEN bad
                    ELSE repl(sp - mk + 2, PyList(stack[mk - 1].v \o above), 1)
               [] op = 115 ->
                    IF sp - mk < 3 \/ stack[sp - 2].t # "dict" THEN bad
                    ELSE repl(3, PyDict(DictSet(stack[sp - 2].v,
                                                stack[sp - 1], stack[sp])), 1)
               [] op = 117 ->
                    IF mk < 2 \/ stack[mk - 1].t # "dict" \/ (sp - mk) % 2 # 0
                        THEN bad
                    ELSE repl(sp - mk + 2,
                              PyDict(DictUpdate(stack[mk - 1].v, above, 1)), 1)
               [] op = 46 ->
                    IF sp = 0 \/ stack[sp] = MARK THEN bad
                    ELSE Loaded(stack[sp])
               [] OTHER -> bad

\* variant: a file that does not parse is read as None instead of raising
load_lenient(data) ==
    IF load_ops(data, 1, <<>>).ok THEN load_ops(data, 1, <<>>) ELSE Loaded(PyNone)

\* pickle.load(f) on a file holding data
load(data) == load_ops(data, 1, <<>>)

(***************************************************************************)
(* _arg_hash                                                               *)
(***************************************************************************)
\* the call's kwargs dict: the named arguments in the order supplied
KwDict(kwargs) ==
    PyDict([i \in 1..Len(kwargs) |-> <<PyStr(kwargs[i][1]), kwargs[i][2]>>])

\* the object pickled for the key: the pair (args, kwargs)
ArgsObj(args, kwargs) == PyTuple(<<PyTuple(args), KwDict(kwargs)>>)

\* variant: the key is derived from the argument values alone, the positional
\* ones followed by the named ones
arg_hash_values(args, kwargs) ==
    MD5Hex(dumps(PyTuple(args \o [i \in 1..Len(kwargs) |-> kwargs[i][2]]), 4))

\* variant: the positional arguments are left out of the pickled object
arg_hash_kwargs_only(args, kwargs) == MD5Hex(dumps(KwDict(kwargs), 4))

\* key = hashlib.md5(pickle.dumps((args, kwargs))).hexdigest()
arg_hash(args, kwargs) == MD5Hex(dumps(ArgsObj(args, kwargs), 4))

\* variant: a pickling failure is swallowed and a key is produced anyway
arg_hash_never_raises(args, kwargs) == FALSE

\* pickle.dumps raises TypeError when an argument cannot be pickled
arg_hash_raises(args, kwargs) == ~Picklable(ArgsObj(args, kwargs))

(***************************************************************************)
(* Bounded inputs: the call forms and the decorated functions              *)
(***************************************************************************)
MaxVal == 2
MaxExec == 2

ArgVals == 1..MaxVal
NameA == <<97>>
NameB == <<98>>

Form(args, kwargs) == [args |-> args, kwargs |-> kwargs]

\* f(x, y)
PosForms == {Form(<<PyInt(m), PyInt(n)>>, <<>>) : m \in ArgVals, n \in ArgVals} \
                {Form(<<PyInt(n), PyInt(n)>>, <<>>) : n \in ArgVals}
\* f(a=1, b=2) and f(b=2, a=1)
NamedForms == { Form(<<>>, << <<NameA, PyInt(1)>>, <<NameB, PyInt(2)>> >>),
                Form(<<>>, << <<NameB, PyInt(2)>>, <<NameA, PyInt(1)>> >>) }
\* f(<open handle>, 2): an argument pickle refuses
HandleForm == Form(<<PyHandle, PyInt(2)>>, <<>>)
\* f(1): the parameter b is missing, the function raises TypeError
ShortForm == Form(<<PyInt(1)>>, <<>>)

CallForms == PosForms \cup NamedForms \cup {HandleForm, ShortForm}

\* cache_dir values: None, a str (tokens, "/" the separator), a Path (parts)
DirNone == [kind |-> "None", s |-> <<>>]
DirStr(tokens) == [kind |-> "str", s |-> tokens]
DirPath(parts) == [kind |-> "Path", s |-> parts]

\* the decorated functions: __name__, the body, the decorator's cache_dir
Wrapper(name, body, dir) == [name |-> name, body |-> body, cache_dir |-> dir]
AddFn == Wrapper("add", "add", DirStr(<<"/", "tmp", "/", "fn_cache">>))
ShapeFn == Wrapper("add", "shape", DirPath(<<"/", "tmp", "fn_cache">>))
OpenerFn == Wrapper("opener", "opener", DirNone)
Wrappers == {AddFn, ShapeFn, OpenerFn}

\* the same function decorated with the other kinds of cache_dir: the default,
\* the empty string, a relative string, and a directory whose parent is missing
NoneDirFn == Wrapper("add", "add", DirNone)
EmptyDirFn == Wrapper("add", "add", DirStr(<<>>))
RelDirFn == Wrapper("add", "add", DirStr(<<"cache">>))
DeepFn == Wrapper("add", "add", DirStr(<<"/", "tmp", "/", "deep", "/", "cache">>))
DirWrappers == {AddFn, ShapeFn, NoneDirFn, EmptyDirFn, RelDirFn, DeepFn}

Sites == Wrappers \X CallForms
Threads == {"t1", "t2"}

\* Python's binding of (args, kwargs) to the parameters (a, b)
HasKw(kwargs, nm) == \E i \in 1..Len(kwargs) : kwargs[i][1] = nm
KwVal(kwargs, nm) == kwargs[CHOOSE i \in 1..Len(kwargs) : kwargs[i][1] = nm][2]
BindOk(args, kwargs) ==
    /\ Len(args) <= 2
    /\ \A i \in 1..Len(kwargs) : kwargs[i][1] \in {NameA, NameB}
    /\ (Len(args) >= 1) # HasKw(kwargs, NameA)
    /\ (Len(args) >= 2) # HasKw(kwargs, NameB)
ParamA(args, kwargs) == IF Len(args) >= 1 THEN args[1] ELSE KwVal(kwargs, NameA)
ParamB(args, kwargs) == IF Len(args) >= 2 THEN args[2] ELSE KwVal(kwargs, NameB)

\* variant: the call is wrapped in try/except and a failure yields None
func_or_none(body, args, kwargs) ==
    LET a == ParamA(args, kwargs)
        b == ParamB(args, kwargs)
    IN  IF ~BindOk(args, kwargs) THEN Loaded(PyNone)
        ELSE IF body = "opener" THEN Loaded(PyHandle)
        ELSE IF a.t # "int" \/ b.t # "int" THEN Loaded(PyNone)
        ELSE IF body = "add" THEN Loaded(PyInt(a.v[1] + b.v[1]))
        ELSE Loaded(PyDict(<< <<PyStr(<<115>>), PyList(<<a, b>>)>>,
                              <<PyStr(<<116>>), PyTuple(<<a>>)>>,
                              <<PyStr(<<117>>), PyStr(<<111, 107>>)>>,
                              <<PyStr(<<118>>), PyNone>> >>))

\* func(*args, **kwargs) for the three bodies
func(body, args, kwargs) ==
    LET a == ParamA(args, kwargs)
        b == ParamB(args, kwargs)
    IN  IF ~BindOk(args, kwargs) THEN Raised("TypeError")
        ELSE IF body = "opener" THEN Loaded(PyHandle)
        ELSE IF a.t # "int" \/ b.t # "int" THEN Raised("TypeError")
        ELSE IF body = "add" THEN Loaded(PyInt(a.v[1] + b.v[1]))
        ELSE Loaded(PyDict(<< <<PyStr(<<115>>), PyList(<<a, b>>)>>,
                              <<PyStr(<<116>>), PyTuple(<<a>>)>>,
                              <<PyStr(<<117>>), PyStr(<<111, 107>>)>>,
                              <<PyStr(<<118>>), PyNone>> >>))

(***************************************************************************)
(* Paths and the file system                                               *)
(***************************************************************************)
TempDir == <<"/", "tmp">>
Cwd == <<"/", "home">>

\* pathlib.Path(str).parts
RECURSIVE PathParts(_)
PathParts(tokens) ==
    IF tokens = <<>> THEN <<>>
    ELSE IF Head(tokens) \in {"/", "."} THEN PathParts(Tail(tokens))
    ELSE <<Head(tokens)>> \o PathParts(Tail(tokens))
PathOfStr(tokens) ==
    (IF tokens # <<>> /\ Head(tokens) = "/" THEN <<"/">> ELSE <<>>)
        \o PathParts(tokens)

\* variant: "if not cache_dir" in place of "if cache_dir is None"
cache_path_falsy(cache_dir) ==
    IF cache_dir.kind = "None" \/ cache_dir.s = <<>>
    THEN TempDir \o <<"py_fn_cache">>
    ELSE IF cache_dir.kind = "str" THEN PathOfStr(cache_dir.s)
    ELSE cache_dir.s

\* lines 67-73: the directory the wrapper uses
cache_path(cache_dir) ==
    IF cache_dir.kind = "None" THEN TempDir \o <<"py_fn_cache">>
    ELSE IF cache_dir.kind = "str" THEN PathOfStr(cache_dir.s)
    ELSE cache_dir.s

\* variant: the function's name is left out of the file name
cache_file_unnamed(w, key) == cache_path(w.cache_dir) \o <<key \o ".pkl">>

\* line 75: cache_path / f"{func.__name__}_{key}.pkl"
cache_file(w, key) ==
    cache_path(w.cache_dir) \o <<w.name \o "_" \o key \o ".pkl">>

\* the path the operating system resolves
AbsPath(path) == IF path # <<>> /\ path[1] = "/" THEN path ELSE Cwd \o path

Prefixes(path) == {SubSeq(path, 1, n) : n \in 1..Len(path)}

\* keys and artifact paths of the bounded inputs, computed once
KeyOf == [f \in CallForms |-> arg_hash(f.args, f.kwargs)]
HasKey(f) == ~arg_hash_raises(f.args, f.kwargs)
FileOf(site) == AbsPath(cache_file(site[1], KeyOf[site[2]]))

(***************************************************************************)
(* State                                                                   *)
(***************************************************************************)
VARIABLES
    sites,      \* the (decorated function, call form) pairs this program calls
    dirs,       \* the directories that exist
    files,      \* the regular files that exist: path -> contents
    pc,         \* each thread's position in wrapper
    call,       \* each thread's locals in wrapper
    outcome,    \* how each thread's latest call ended
    executed,   \* the call counter instrumenting each site's function
    origin,     \* history: who wrote each file last (a site, or External)
    removed     \* history: the paths that were deleted externally

vars == <<sites, dirs, files, pc, call, outcome, executed, origin, removed>>

NoSite == <<>>
External == <<"external">>
\* had and n0 are history: whether the artifact existed, and the counter's
\* value, when the call arrived
NoCall == [site |-> NoSite, key |-> "", path |-> <<>>, file |-> <<>>,
           found |-> FALSE, result |-> PyNone, had |-> FALSE, n0 |-> 0]
\* src is history: the writer of the artifact a hit was served from
NoOutcome == [kind |-> "none", at |-> "", exc |-> "", val |-> PyNone,
              site |-> NoSite, hit |-> FALSE, src |-> NoSite]
Pending(site) == [NoOutcome EXCEPT !.kind = "pending", !.site = site]
Returns(site, val, hit, src) ==
    [kind |-> "return", at |-> "", exc |-> "", val |-> val,
     site |-> site, hit |-> hit, src |-> src]
Raises(site, at, exc, hit) ==
    [kind |-> "raise", at |-> at, exc |-> exc, val |-> PyNone,
     site |-> site, hit |-> hit, src |-> NoSite]

\* f with f[k] = val, k added to the domain when it is new
Put(f, k, val) == [q \in DOMAIN f \cup {k} |-> IF q = k THEN val ELSE f[q]]
Drop(f, k) == [q \in DOMAIN f \ {k} |-> f[q]]

\* variant: an empty file is taken for a missing one
exists_nonempty(path) ==
    \/ AbsPath(path) \in dirs
    \/ AbsPath(path) \in DOMAIN files /\ files[AbsPath(path)] # <<>>

\* variant: is_dir() in place of exists()
exists_is_dir(path) == AbsPath(path) \in dirs

\* Path.exists()
exists(path) == AbsPath(path) \in DOMAIN files \/ AbsPath(path) \in dirs

\* f.write(data) on a file just opened "wb": the bytes land at offset 0
WriteAt0(old, data) ==
    IF Len(old) > Len(data) THEN data \o SubSeq(old, Len(data) + 1, Len(old))
    ELSE data

\* variant: the two branches are swapped, "if not cache_file.exists()"
Branch_inverted(found) == IF found THEN "func" ELSE "load"

\* variant: the function is called whether or not the artifact exists
Branch_always_func(found) == "func"

\* line 78/84: the branch taken after the existence check
Branch(found) == IF found THEN "load" ELSE "func"

\* variant: a stray comma pickles the 1-tuple (result,)
payload_tuple(result) == dumps(PyTuple(<<result>>), 5)

\* line 91: the bytes pickle.dump(result, f, protocol=HIGHEST_PROTOCOL) writes
payload(result) == dumps(result, 5)

\* variant: exclusive creation, open(cache_file, "xb")
OpenError_exclusive(fp, dp) ==
    IF fp \in dirs THEN "IsADirectoryError"
    ELSE IF dp \notin dirs THEN "FileNotFoundError"
    ELSE IF fp \in DOMAIN files THEN "FileExistsError"
    ELSE ""

\* line 90: the error open(cache_file, "wb") raises, "" when it succeeds
OpenError(fp, dp) ==
    IF fp \in dirs THEN "IsADirectoryError"
    ELSE IF dp \notin dirs THEN "FileNotFoundError"
    ELSE ""

Garbage == <<103, 97, 114, 98>>
ForeignPickle == <<128, 5, 75, 0, 46>>
Placeable == {Garbage, ForeignPickle}

Scenarios == {{p, q} : p \in Sites, q \in Sites}

InitWith(ss) ==
    /\ sites \in ss
    /\ dirs = {<<"/">>, TempDir, Cwd}
    /\ files = <<>>
    /\ pc = [t \in Threads |-> "idle"]
    /\ call = [t \in Threads |-> NoCall]
    /\ outcome = [t \in Threads |-> NoOutcome]
    /\ executed = [p \in sites |-> 0]
    /\ origin = <<>>
    /\ removed = {}

Init == InitWith(Scenarios)

(***************************************************************************)
(* wrapper, one action per statement that touches shared state             *)
(***************************************************************************)
Finish(t, out) ==
    /\ pc' = [pc EXCEPT ![t] = "idle"]
    /\ outcome' = [outcome EXCEPT ![t] = out]

\* lines 64-76: the call arrives; key, cache_path and cache_file are computed
Call(t, site) ==
    /\ pc[t] = "idle"
    /\ site \in sites
    /\ executed[site] < MaxExec
    /\ IF arg_hash_raises(site[2].args, site[2].kwargs)
       THEN /\ Finish(t, Raises(site, "key", "TypeError", FALSE))
            /\ call' = [call EXCEPT ![t] = NoCall]
       ELSE /\ pc' = [pc EXCEPT ![t] = "exists"]
            /\ outcome' = [outcome EXCEPT ![t] = Pending(site)]
            /\ call' = [call EXCEPT ![t] =
                  [NoCall EXCEPT !.site = site,
                                 !.key = KeyOf[site[2]],
                                 !.path = cache_path(site[1].cache_dir),
                                 !.file = cache_file(site[1], KeyOf[site[2]]),
                                 !.had = FileOf(site) \in DOMAIN files,
                                 !.n0 = executed[site]]]
    /\ UNCHANGED <<sites, dirs, files, executed, origin, removed>>

\* line 78: if cache_file.exists()
Exists(t) ==
    /\ pc[t] = "exists"
    /\ call' = [call EXCEPT ![t].found = exists(call[t].file)]
    /\ pc' = [pc EXCEPT ![t] = Branch(exists(call[t].file))]
    /\ UNCHANGED <<sites, dirs, files, outcome, executed, origin, removed>>

\* lines 82-83: open(cache_file, "rb") and return pickle.load(f)
Load(t) ==
    LET c == call[t]
        fp == AbsPath(c.file)
        r == load(files[fp])
    IN  /\ pc[t] = "load"
        /\ IF fp \in dirs THEN Finish(t, Raises(c.site, "load", "IsADirectoryError", TRUE))
           ELSE IF fp \notin DOMAIN files
               THEN Finish(t, Raises(c.site, "load", "FileNotFoundError", TRUE))
           ELSE IF r.ok THEN Finish(t, Returns(c.site, r.val, TRUE, origin[fp]))
           ELSE Finish(t, Raises(c.site, "load", r.exc, TRUE))
        /\ UNCHANGED <<sites, dirs, files, call, executed, origin, removed>>

\* line 85: result = func(*args, **kwargs)
Invoke(t) ==
    LET c == call[t]
        r == func(c.site[1].body, c.site[2].args, c.site[2].kwargs)
    IN  /\ pc[t] = "func"
        /\ executed' = [executed EXCEPT ![c.site] = @ + 1]
        /\ IF r.ok
           THEN /\ call' = [call EXCEPT ![t].result = r.val]
                /\ pc' = [pc EXCEPT ![t] = "mkdir"]
                /\ UNCHANGED outcome
           ELSE /\ Finish(t, Raises(c.site, "func", r.exc, FALSE))
                /\ UNCHANGED call
        /\ UNCHANGED <<sites, dirs, files, origin, removed>>

\* variant: the directory's creation is wrapped in try/except OSError: pass
MkdirError_ignored(dp) == ""

\* line 89: the error mkdir(parents=True, exist_ok=True) raises, "" when it
\* succeeds: a regular file at the path itself, or at one of its parents
MkdirError(dp) ==
    IF dp \in DOMAIN files THEN "FileExistsError"
    ELSE IF Prefixes(dp) \cap DOMAIN files # {} THEN "NotADirectoryError"
    ELSE ""

\* line 89: cache_path.mkdir(parents=True, exist_ok=True)
Mkdir(t) ==
    LET c == call[t]
        dp == AbsPath(c.path)
    IN  /\ pc[t] = "mkdir"
        /\ IF MkdirError(dp) # ""
           THEN /\ Finish(t, Raises(c.site, "mkdir", MkdirError(dp), FALSE))
                /\ UNCHANGED dirs
           ELSE /\ dirs' = dirs \cup Prefixes(dp)
                /\ pc' = [pc EXCEPT ![t] = "open"]
                /\ UNCHANGED outcome
        /\ UNCHANGED <<sites, files, call, executed, origin, removed>>

\* line 90: open(cache_file, "wb") creates the file, or truncates it
OpenW(t) ==
    LET c == call[t]
        fp == AbsPath(c.file)
    IN  /\ pc[t] = "open"
        /\ IF OpenError(fp, AbsPath(c.path)) # ""
           THEN /\ Finish(t, Raises(c.site, "open",
                                    OpenError(fp, AbsPath(c.path)), FALSE))
                /\ UNCHANGED <<files, origin>>
           ELSE /\ files' = Put(files, fp, <<>>)
                /\ origin' = Put(origin, fp, c.site)
                /\ pc' = [pc EXCEPT ![t] = "dump"]
                /\ UNCHANGED outcome
        /\ UNCHANGED <<sites, dirs, call, executed, removed>>

\* lines 91-92: pickle.dump(result, f, protocol=HIGHEST_PROTOCOL); return result
Dump(t) ==
    LET c == call[t]
        fp == AbsPath(c.file)
    IN  /\ pc[t] = "dump"
        /\ IF ~Picklable(c.result)
           THEN /\ Finish(t, Raises(c.site, "dump", "TypeError", FALSE))
                /\ UNCHANGED <<files, origin>>
           ELSE /\ files' = [files EXCEPT ![fp] = WriteAt0(@, payload(c.result))]
                /\ origin' = [origin EXCEPT ![fp] = c.site]
                /\ Finish(t, Returns(c.site, c.result, FALSE, NoSite))
        /\ UNCHANGED <<sites, dirs, call, executed, removed>>

Step(t) ==
    \/ \E site \in sites : Call(t, site)
    \/ Exists(t)
    \/ Load(t)
    \/ Invoke(t)
    \/ Mkdir(t)
    \/ OpenW(t)
    \/ Dump(t)

\* the numbers of bytes of the payload that can have reached the file when the
\* write is cut short
Cuts(result) ==
    IF Picklable(result) THEN 0..(Len(payload(result)) - 1) ELSE {0}

\* the call is interrupted (KeyboardInterrupt, or the process is killed) at
\* its current statement; inside line 91 a part of the payload is on disk
Interrupt(t) ==
    LET c == call[t]
        fp == AbsPath(c.file)
    IN  /\ pc[t] # "idle"
        /\ IF pc[t] = "dump"
           THEN \E k \in Cuts(c.result) :
                  /\ files' = [files EXCEPT ![fp] =
                        WriteAt0(@, SubSeq(payload(c.result), 1, k))]
                  /\ origin' = [origin EXCEPT ![fp] = c.site]
           ELSE UNCHANGED <<files, origin>>
        /\ Finish(t, Raises(c.site, pc[t], "KeyboardInterrupt", FALSE))
        /\ UNCHANGED <<sites, dirs, call, executed, removed>>

(***************************************************************************)
(* The caller's environment                                                *)
(***************************************************************************)
Idle == \A t \in Threads : pc[t] = "idle"
ArtifactPaths == {FileOf(p) : p \in {q \in sites : HasKey(q[2])}}

\* os.remove(cache_file), as in the test's clean-up
ExternalDelete(fp) ==
    /\ Idle
    /\ fp \in DOMAIN files
    /\ files' = Drop(files, fp)
    /\ origin' = Drop(origin, fp)
    /\ removed' = removed \cup {fp}
    /\ UNCHANGED <<sites, dirs, pc, call, outcome, executed>>

\* another program leaves a file at an artifact's path
ExternalPlace(fp, data) ==
    /\ Idle
    /\ fp \in ArtifactPaths
    /\ fp \notin dirs
    /\ Prefixes(SubSeq(fp, 1, Len(fp) - 1)) \cap DOMAIN files = {}
    /\ dirs' = dirs \cup Prefixes(SubSeq(fp, 1, Len(fp) - 1))
    /\ files' = Put(files, fp, data)
    /\ origin' = Put(origin, fp, External)
    /\ UNCHANGED <<sites, pc, call, outcome, executed, removed>>

Environment ==
    \/ \E fp \in DOMAIN files : ExternalDelete(fp)
    \/ \E fp \in ArtifactPaths, data \in Placeable : ExternalPlace(fp, data)

\* a regular file is left where a cache directory, or one of its parents, is
\* to be created
CacheDirs == {AbsPath(cache_path(p[1].cache_dir)) : p \in sites}
BlockPaths == UNION {Prefixes(dp) : dp \in CacheDirs}
ExternalBlock(bp) ==
    /\ Idle
    /\ bp \in BlockPaths
    /\ bp \notin dirs
    /\ bp \notin DOMAIN files
    /\ SubSeq(bp, 1, Len(bp) - 1) \in dirs
    /\ files' = Put(files, bp, <<>>)
    /\ origin' = Put(origin, bp, External)
    /\ UNCHANGED <<sites, dirs, pc, call, outcome, executed, removed>>

\* a single sequential caller
Next == Step("t1") \/ Environment
Spec == Init /\ [][Next]_vars

\* two threads calling the wrapper concurrently, nothing else touching the files
NextRace == \E t \in Threads : Step(t)
SpecRace == Init /\ [][NextRace]_vars

\* a single sequential caller, and an environment that can also block the
\* creation of the cache directory
NextBlocked == Next \/ \E bp \in BlockPaths : ExternalBlock(bp)
BlockScenarios == {{<<w, f>>} : w \in {AddFn, DeepFn}, f \in PosForms}
SpecBlocked == InitWith(BlockScenarios) /\ [][NextBlocked]_vars

\* two threads calling the wrapper, each of which can be interrupted
NextCrash == \E t \in Threads : Step(t) \/ Interrupt(t)
CrashScenarios == {{<<AddFn, f>>} : f \in PosForms}
SpecCrash == InitWith(CrashScenarios) /\ [][NextCrash]_vars

\* a single sequential caller of one function, decorated with each kind of
\* cache_dir in turn
DirScenarios == {{<<w, f>>} : w \in DirWrappers, f \in PosForms}
SpecDirs == InitWith(DirScenarios) /\ [][Next]_vars

(***************************************************************************)
(* Properties                                                              *)
(***************************************************************************)
T1 == "t1"

\* what the caller expects, stated without the wrapper's own path code
ExpectedDir(w) ==
    IF w.name = "opener" THEN <<"/", "tmp", "py_fn_cache">>
    ELSE <<"/", "tmp", "fn_cache">>
ExpectedFile(p) ==
    ExpectedDir(p[1]) \o <<p[1].name \o "_" \o KeyOf[p[2]] \o ".pkl">>
ArgsOf(p) == ArgsObj(p[2].args, p[2].kwargs)
FValue(p) == func(p[1].body, p[2].args, p[2].kwargs)
\* the arguments pickle, the function returns, and its result pickles
Healthy(p) == Picklable(ArgsOf(p)) /\ FValue(p).ok /\ Picklable(FValue(p).val)
\* contents no unpickler accepts: an empty file, or bytes of another format
Unreadable(data) == data = <<>> \/ data = Garbage
DeserErrors == {"EOFError", "UnpicklingError"}
\* a step of the wrapper, as opposed to a step of the environment
WrapperStep == <<pc, call, outcome>>' # <<pc, call, outcome>>

\* C1: with a single sequential caller, as long as the artifact of a
\* (function, arguments) pair is never deleted externally and the function and
\* the (de)serialization succeed, the function is executed at most once for the
\* pair; a call served from the artifact the pair's first call wrote leaves the
\* counter at exactly one.
AtMostOneExecution ==
    \A p \in sites :
        (Healthy(p) /\ ExpectedFile(p) \notin removed) =>
            /\ executed[p] <= 1
            /\ ( /\ outcome[T1].kind = "return"
                 /\ outcome[T1].site = p
                 /\ outcome[T1].hit
                 /\ outcome[T1].src = p ) => executed[p] = 1

AtMostOneExecutionWitness ==
    \E p \in sites :
        /\ Healthy(p)
        /\ ExpectedFile(p) \notin removed
        /\ outcome[T1] = Returns(p, FValue(p).val, TRUE, p)
        /\ executed[p] = 1

\* C2: no artifact exists at the start; a wrapper call only ever creates the
\* file <cache directory>/<name>_<key>.pkl of its own pair; when a call that
\* missed returns, that file exists and the counter has advanced by one; the
\* file stays across every step of the wrapper; and a call that finds the
\* file absent (again, after a deletion) goes on to execute the function.
HitMissTransition ==
    /\ files = <<>>
    /\ [][\A p \in sites :
            LET fp == ExpectedFile(p)
                mine == pc[T1] # "idle" /\ call[T1].site = p
            IN  /\ mine => /\ DOMAIN files \subseteq DOMAIN files'
                           /\ DOMAIN files' \subseteq DOMAIN files \cup {fp}
                /\ (mine /\ pc[T1] = "dump" /\ outcome'[T1].kind = "return") =>
                        /\ fp \in DOMAIN files'
                        /\ ~call[T1].had
                        /\ executed'[p] = call[T1].n0 + 1
                /\ (Picklable(ArgsOf(p)) /\ fp \in DOMAIN files
                                         /\ WrapperStep) =>
                        fp \in DOMAIN files'
                /\ (mine /\ pc[T1] = "exists" /\ fp \notin DOMAIN files) =>
                        pc'[T1] = "func"
                /\ (mine /\ pc[T1] = "func") => executed'[p] = executed[p] + 1
         ]_vars

HitMissTransitionWitness ==
    \E p \in sites :
        /\ Healthy(p)
        /\ ExpectedFile(p) \in removed
        /\ ExpectedFile(p) \in DOMAIN files
        /\ origin[ExpectedFile(p)] = p
        /\ executed[p] = 2
        /\ outcome[T1] = Returns(p, FValue(p).val, FALSE, NoSite)

\* C3: a call that missed returns what the unwrapped function returns, and a
\* hit served from the artifact the pair's own miss wrote returns a value equal
\* to it.
RoundTripFidelity ==
    \A t \in Threads :
        LET o == outcome[t]
        IN  (o.kind = "return" /\ (~o.hit \/ o.src = o.site)) =>
                /\ FValue(o.site).ok
                /\ PyEq(o.val, FValue(o.site).val)

RoundTripFidelityWitness ==
    /\ outcome[T1].kind = "return"
    /\ outcome[T1].hit
    /\ outcome[T1].src = outcome[T1].site
    /\ outcome[T1].val.t = "dict"
    /\ outcome[T1].val = FValue(outcome[T1].site).val

\* C4 (as claimed): the key the wrapper derives for a call is the key of every
\* equal argument set of the same function, whatever the order in which the
\* named arguments were supplied.
KeyIndependentOfMappingOrder ==
    \A t \in Threads :
        pc[t] # "idle" =>
            \A q \in sites :
                ( /\ q[1] = call[t].site[1]
                  /\ Picklable(ArgsOf(q))
                  /\ PyEq(ArgsOf(q), ArgsOf(call[t].site)) ) =>
                        call[t].key = KeyOf[q[2]]

\* C5 (as claimed): after a call failed because the function's result could
\* not be serialized, no file exists at the pair's artifact path.
NoArtifactAfterSerializationFailure ==
    \A t \in Threads :
        (pc[t] = "idle" /\ outcome[t].kind = "raise" /\ outcome[t].at = "dump") =>
            ExpectedFile(outcome[t].site) \notin DOMAIN files

\* C6: a call that found its artifact present when it arrived changes no
\* file, creates no directory and does not invoke the function.
HitHasNoSideEffects ==
    [][ ( \/ pc[T1] # "idle" /\ call[T1].had
          \/ pc[T1] = "idle" /\ pc'[T1] # "idle" /\ call'[T1].had ) =>
            (files' = files /\ dirs' = dirs /\ executed' = executed)
      ]_vars

HitHasNoSideEffectsWitness ==
    /\ pc[T1] = "idle"
    /\ call[T1].had
    /\ outcome[T1].kind = "return"
    /\ outcome[T1].hit
    /\ executed[outcome[T1].site] = call[T1].n0

\* C7: two different argument sets of one function have different keys and
\* different artifact paths; a hit for one is never served from an artifact the
\* other wrote; and a pair that returned from its own artifact or from a miss
\* has executed its function itself.
DistinctArgsCachedSeparately ==
    \A p \in sites : \A q \in sites :
        ( /\ p[1] = q[1]
          /\ Picklable(ArgsOf(p))
          /\ Picklable(ArgsOf(q))
          /\ ~PyEq(ArgsOf(p), ArgsOf(q)) ) =>
            /\ KeyOf[p[2]] # KeyOf[q[2]]
            /\ ExpectedFile(p) # ExpectedFile(q)
            /\ \A t \in Threads :
                  (outcome[t].kind = "return" /\ outcome[t].site = p) =>
                        /\ outcome[t].src # q
                        /\ outcome[t].src \in {NoSite, p} => executed[p] >= 1

DistinctArgsCachedSeparatelyWitness ==
    \E p \in sites : \E q \in sites :
        /\ p[1] = q[1]
        /\ p[2] # q[2]
        /\ Healthy(p) /\ Healthy(q)
        /\ PyEq(FValue(p).val, FValue(q).val)
        /\ ExpectedFile(p) \in DOMAIN files /\ origin[ExpectedFile(p)] = p
        /\ ExpectedFile(q) \in DOMAIN files /\ origin[ExpectedFile(q)] = q
        /\ ExpectedFile(p) # ExpectedFile(q)
        /\ executed[p] = 1 /\ executed[q] = 1
        /\ removed = {}

\* C8: while a file that cannot be deserialized sits at a pair's artifact
\* path, every wrapper step leaves the file as it is and does not invoke the
\* function; a call for the pair takes the hit path and ends with the
\* deserialization error.  (A call's own half-written file is not meant.)
CorruptArtifactBlocksKey ==
    [][\A p \in sites : LET fp == ExpectedFile(p)
                writing == /\ pc[T1] \in {"func", "mkdir", "open", "dump"}
                           /\ ExpectedFile(call[T1].site) = fp
            IN  ( /\ Picklable(ArgsOf(p))
                  /\ fp \in DOMAIN files
                  /\ Unreadable(files[fp])
                  /\ WrapperStep
                  /\ ~writing ) =>
                    /\ fp \in DOMAIN files'
                    /\ files'[fp] = files[fp]
                    /\ executed'[p] = executed[p]
                    /\ (pc[T1] = "exists" /\ call[T1].site = p) => pc'[T1] = "load"
                    /\ (pc[T1] = "load" /\ call[T1].site = p) =>
                            /\ outcome'[T1].kind = "raise"
                            /\ outcome'[T1].at = "load"
                            /\ outcome'[T1].exc \in DeserErrors
      ]_vars

CorruptArtifactBlocksKeyWitness ==
    \E p \in sites :
        /\ Picklable(ArgsOf(p))
        /\ ExpectedFile(p) \in DOMAIN files
        /\ files[ExpectedFile(p)] = Garbage
        /\ pc[T1] = "idle"
        /\ outcome[T1].kind = "raise"
        /\ outcome[T1].site = p
        /\ outcome[T1].at = "load"
        /\ outcome[T1].exc \in DeserErrors
        /\ executed[p] = 0

\* C9: a call with an argument that cannot be serialized ends at once with the
\* error of the key derivation: the function is not invoked and no file or
\* directory changes.
UnserializableArgsAbort ==
    [][\A p \in sites :
            (~Picklable(ArgsOf(p)) /\ outcome'[T1] # outcome[T1]
                                  /\ outcome'[T1].site = p) =>
                /\ outcome'[T1].kind = "raise"
                /\ outcome'[T1].at = "key"
                /\ pc'[T1] = "idle"
                /\ files' = files
                /\ dirs' = dirs
                /\ executed' = executed
      ]_vars

UnserializableArgsAbortWitness ==
    \E p \in sites :
        /\ ~Picklable(ArgsOf(p))
        /\ outcome[T1] = Raises(p, "key", "TypeError", FALSE)
        /\ pc[T1] = "idle"
        /\ executed[p] = 0
        /\ ExpectedDir(p[1]) \notin dirs

\* C10: with two threads in the wrapper nothing makes one fail because of the
\* other's write: no call fails at mkdir or at open (there is no exclusive
\* creation and no lock file), and once the writers of a pair are done the
\* file holds the payload of the last of them.  The witness is the race
\* itself: both threads missed, both executed the function, both wrote.
WriterRace ==
    /\ \A t \in Threads :
          outcome[t].kind = "raise" => outcome[t].at \notin {"mkdir", "open"}
    /\ \A p \in sites :
          LET fp == ExpectedFile(p)
          IN  ( /\ Healthy(p)
                /\ \A q \in sites : Picklable(ArgsOf(q)) /\ ExpectedFile(q) = fp => q = p
                /\ fp \in DOMAIN files
                /\ \A t \in Threads : pc[t] # "dump" ) =>
                    /\ origin[fp] = p
                    /\ files[fp] = dumps(FValue(p).val, 5)

WriterRaceWitness ==
    \E p \in sites :
        /\ Healthy(p)
        /\ \A t \in Threads : outcome[t] = Returns(p, FValue(p).val, FALSE, NoSite)
        /\ \A t \in Threads : pc[t] = "idle"
        /\ executed[p] = 2
        /\ removed = {}
        /\ files[ExpectedFile(p)] = dumps(FValue(p).val, 5)

\* C11 (as claimed): a wrapper configured with None or with an empty cache_dir
\* uses <temporary directory>/py_fn_cache, and a wrapper configured with a
\* non-empty path uses exactly that path, on every call.
ClaimedDir(w) ==
    IF w.cache_dir.kind = "None" \/ w.cache_dir.s = <<>>
    THEN <<"/", "tmp", "py_fn_cache">>
    ELSE AbsPath(IF w.cache_dir.kind = "str" THEN PathOfStr(w.cache_dir.s)
                 ELSE w.cache_dir.s)
CacheDirResolution ==
    \A t \in Threads :
        pc[t] # "idle" => AbsPath(call[t].path) = ClaimedDir(call[t].site[1])

\* the directory each decorated function is expected to use, written out
DirOf(w) ==
    CASE w = NoneDirFn -> <<"/", "tmp", "py_fn_cache">>
      [] w = EmptyDirFn -> <<"/", "home">>
      [] w = RelDirFn -> <<"/", "home", "cache">>
      [] w = DeepFn -> <<"/", "tmp", "deep", "cache">>
      [] OTHER -> <<"/", "tmp", "fn_cache">>

\* C11 (amended): a wrapper configured with None uses
\* <temporary directory>/py_fn_cache; a wrapper configured with any string or
\* path uses that path as pathlib reads it, the empty string naming the current
\* working directory; every call of the wrapper resolves the same directory and
\* every artifact it writes lies directly in it.
CacheDirResolutionAmended ==
    /\ \A t \in Threads :
          pc[t] # "idle" => AbsPath(call[t].path) = DirOf(call[t].site[1])
    /\ \A fp \in DOMAIN files :
          origin[fp] # External =>
              SubSeq(fp, 1, Len(fp) - 1) = DirOf(origin[fp][1])

CacheDirResolutionWitness ==
    \E p \in sites :
        /\ p[1] = EmptyDirFn
        /\ executed[p] = 2
        /\ outcome[T1] = Returns(p, FValue(p).val, FALSE, NoSite)
        /\ FileOf(p) = Cwd \o <<"add_" \o KeyOf[p[2]] \o ".pkl">>
        /\ FileOf(p) \in DOMAIN files
        /\ origin[FileOf(p)] = p

\* C12: a call whose function raises (a required parameter is missing) and
\* which found no artifact when it arrived changes no file and creates no
\* directory in any of its steps; it goes from the existence check to the
\* function, invokes it, and ends there with the function's own error.
FunctionRaisesNoCaching ==
    [][ \A p \in sites :
          (p[2] = ShortForm /\ pc[T1] # "idle" /\ call[T1].site = p
                            /\ ~call[T1].had) =>
              /\ files' = files
              /\ dirs' = dirs
              /\ pc[T1] = "exists" => pc'[T1] = "func"
              /\ pc[T1] = "func" =>
                    /\ executed'[p] = executed[p] + 1
                    /\ pc'[T1] = "idle"
                    /\ outcome'[T1] = Raises(p, "func", "TypeError", FALSE)
      ]_vars

FunctionRaisesNoCachingWitness ==
    \E p \in sites :
        /\ p[2] = ShortForm
        /\ executed[p] = 2
        /\ outcome[T1] = Raises(p, "func", "TypeError", FALSE)
        /\ FileOf(p) \notin DOMAIN files
        /\ AbsPath(cache_path(p[1].cache_dir)) \notin dirs

\* C13: under a single sequential caller no step of the wrapper deletes a file
\* that exists; a file's contents change, and a file is created, only in the
\* writing steps of a call for that very path which found it absent.
WriteOnce ==
    [][ WrapperStep =>
          LET own == AbsPath(call[T1].file)
          IN  /\ \A fp \in DOMAIN files :
                    /\ fp \in DOMAIN files'
                    /\ files'[fp] # files[fp] =>
                          /\ pc[T1] = "dump"
                          /\ fp = own
                          /\ ~call[T1].found
                          /\ ~call[T1].had
              /\ \A fp \in DOMAIN files' \ DOMAIN files :
                    /\ pc[T1] = "open"
                    /\ fp = own
                    /\ ~call[T1].found
                    /\ ~call[T1].had
      ]_vars

WriteOnceWitness ==
    \E p \in sites : \E q \in sites :
        /\ Healthy(p) /\ Healthy(q)
        /\ FileOf(p) # FileOf(q)
        /\ cache_path(p[1].cache_dir) = cache_path(q[1].cache_dir)
        /\ removed = {}
        /\ FileOf(p) \in DOMAIN files /\ FileOf(q) \in DOMAIN files
        /\ origin[FileOf(p)] = p /\ origin[FileOf(q)] = q
        /\ files[FileOf(p)] = dumps(FValue(p).val, 5)
        /\ files[FileOf(q)] = dumps(FValue(q).val, 5)
        /\ outcome[T1] = Returns(p, FValue(p).val, TRUE, p)
        /\ executed[p] = 1 /\ executed[q] = 1

\* C14 (as claimed): a hit for a function is served only from an artifact that
\* an earlier call of that same function wrote, and returns the value that
\* function computes for the arguments.
KeyedByFunctionIdentity ==
    \A t \in Threads :
        LET o == outcome[t]
        IN  (o.kind = "return" /\ o.hit /\ o.src # External) =>
                /\ o.src[1] = o.site[1]
                /\ PyEq(o.val, FValue(o.site).val)

\* a regular file sits at the pair's cache directory or at one of its parents
Blocked(p) == \E bp \in Prefixes(DirOf(p[1])) : bp \in DOMAIN files
FsErrors == {"FileExistsError", "NotADirectoryError", "PermissionError"}

\* C15: when the cache directory cannot be created, the call has already
\* invoked the function once when it reaches the directory's creation, ends
\* there with a filesystem error, creates no file and no directory and does not
\* invoke the function a second time; the artifact is still absent, and a call
\* that arrives in this situation goes on to invoke the function.
MkdirFailurePropagates ==
    [][ \A p \in sites :
          (pc[T1] # "idle" /\ call[T1].site = p /\ Blocked(p)) =>
              /\ pc[T1] = "exists" => pc'[T1] = "func"
              /\ pc[T1] = "mkdir" =>
                    /\ executed[p] = call[T1].n0 + 1
                    /\ pc'[T1] = "idle"
                    /\ outcome'[T1].kind = "raise"
                    /\ outcome'[T1].at = "mkdir"
                    /\ outcome'[T1].exc \in FsErrors
                    /\ files' = files
                    /\ dirs' = dirs
                    /\ executed' = executed
                    /\ FileOf(p) \notin DOMAIN files'
      ]_vars

MkdirFailurePropagatesWitness ==
    \E p \in sites :
        /\ Blocked(p)
        /\ outcome[T1] = Raises(p, "mkdir", "NotADirectoryError", FALSE)
        /\ call[T1].n0 = 1
        /\ executed[p] = 2
        /\ FileOf(p) \notin DOMAIN files

\* a proper prefix of the bytes the pair's result pickles to
Truncated(data, p) ==
    \E k \in 0..(Len(dumps(FValue(p).val, 5)) - 1) :
        data = SubSeq(dumps(FValue(p).val, 5), 1, k)

\* C16: a call interrupted inside the serialization leaves the file at the
\* artifact path; a call that checks for the artifact while the file is there
\* goes to the loading branch, not to the function; and loading a file that
\* holds only a part of the payload ends the call with a deserialization error,
\* the function not invoked and the file left as it is.
NonAtomicWrite ==
    [][ \A t \in Threads :
          LET p == call[t].site
              fp == ExpectedFile(p)
          IN  pc[t] # "idle" =>
                /\ (pc[t] = "dump" /\ outcome'[t].exc = "KeyboardInterrupt") =>
                        fp \in DOMAIN files'
                /\ (pc[t] = "exists" /\ fp \in DOMAIN files
                                     /\ pc'[t] \notin {"exists", "idle"}) =>
                        pc'[t] = "load"
                /\ ( /\ pc[t] = "load" /\ pc'[t] = "idle"
                     /\ outcome'[t].exc # "KeyboardInterrupt"
                     /\ fp \in DOMAIN files
                     /\ Truncated(files[fp], p) ) =>
                        /\ outcome'[t].kind = "raise"
                        /\ outcome'[t].at = "load"
                        /\ outcome'[t].exc \in DeserErrors
                        /\ executed' = executed
                        /\ files' = files
      ]_vars

NonAtomicWriteWitness ==
    \E p \in sites : \E t \in Threads : \E u \in Threads :
        /\ t # u
        /\ Idle
        /\ outcome[t] = Raises(p, "dump", "KeyboardInterrupt", FALSE)
        /\ outcome[u] = Raises(p, "load", "UnpicklingError", TRUE)
        /\ executed[p] = 1
        /\ Truncated(files[ExpectedFile(p)], p)
        /\ files[ExpectedFile(p)] # <<>>

\* a positional call and a named call that bind the same values to (a, b)
SameBinding(p, q) ==
    /\ p[1] = q[1]
    /\ p[2] \in PosForms
    /\ q[2] \in NamedForms
    /\ ParamA(p[2].args, p[2].kwargs) = ParamA(q[2].args, q[2].kwargs)
    /\ ParamB(p[2].args, p[2].kwargs) = ParamB(q[2].args, q[2].kwargs)

\* C17: the positional and the named form of one binding have different keys
\* and different artifact paths; a call in one form is never served from the
\* artifact the other form wrote; and each form, while its artifact is not
\* deleted, executes the function at most once.
FormSensitiveKey ==
    \A p \in sites : \A q \in sites :
        SameBinding(p, q) =>
            /\ KeyOf[p[2]] # KeyOf[q[2]]
            /\ ExpectedFile(p) # ExpectedFile(q)
            /\ \A t \in Threads :
                  outcome[t].kind = "return" =>
                      /\ outcome[t].site = p => outcome[t].src # q
                      /\ outcome[t].site = q => outcome[t].src # p
            /\ (Healthy(p) /\ ExpectedFile(p) \notin removed) => executed[p] <= 1
            /\ (Healthy(q) /\ ExpectedFile(q) \notin removed) => executed[q] <= 1

FormSensitiveKeyWitness ==
    \E p \in sites : \E q \in sites :
        /\ SameBinding(p, q)
        /\ removed = {}
        /\ ExpectedFile(p) \in DOMAIN files /\ ExpectedFile(q) \in DOMAIN files
        /\ origin[ExpectedFile(p)] = p /\ origin[ExpectedFile(q)] = q
        /\ executed[p] = 1 /\ executed[q] = 1
        /\ outcome[T1] = Returns(q, FValue(p).val, TRUE, q)

\* C18 (as claimed): a file that the wrapper wrote exists at a pair's artifact
\* path only if the pair's function has been invoked at least once, and a step
\* of the wrapper creates a directory only in a call whose function has
\* already returned.
MissStepOrder ==
    /\ \A p \in sites :
          ( /\ HasKey(p[2])
            /\ FileOf(p) \in DOMAIN files
            /\ origin[FileOf(p)] # External ) => executed[p] >= 1
    /\ \A p \in sites :
          (pc[T1] \in {"open", "dump"} /\ call[T1].site = p) =>
              executed[p] >= call[T1].n0 + 1

====
